---- MODULE Spec2Model ----
(***************************************************************************)
(* Conway's Game of Life on a torus (src/main.js): the grid functions      *)
(* (getNeighbors, wrapIndex, wrapCell, nextCellState, countAlive, step),   *)
(* the module-level universe, and the throttled animation loop            *)
(* (throttle, animate).                                                    *)
(*                                                                         *)
(* JS arrays are functions over 0..len-1 where they are indexed by the     *)
(* code (grids, rows) and sequences where they are only mapped, filtered   *)
(* or reduced (lists of cells).  A cell [m, n] is the tuple <<m, n>>.      *)
(*                                                                         *)
(* Time is counted in clock units relative to the events the code          *)
(* compares it with: Date.now() - previous is kept directly, saturated at  *)
(* PERIOD (the code only compares it with wait and subtracts it from wait  *)
(* under Math.max(.., 0)), and a timer is kept as its remaining delay.     *)
(* setTimeout callbacks run no earlier than their delay, animation-frame   *)
(* callbacks at any time; the clock never runs backwards.                  *)
(***************************************************************************)
EXTENDS Integers, Sequences, FiniteSets, TLC

\* ------------------------------------------------------------------ bounds
\* Side of the modelled grid (the program uses 100).
Side == 3
\* Length of the throttle period in clock units (the program uses 1000 ms).
PeriodUnits == 3
\* Longest time one execution of the step+render work may take.
MaxWorkTime == 1
\* wrapIndex and getNeighbors are called directly on -MaxIndex..MaxIndex.
MaxIndex == 7
\* step is called directly on grids with at most MaxArgLive live cells.
MaxArgLive == 1
\* Executions of the step+render work are counted up to MaxGeneration.
MaxGeneration == 2
\* Largest grid side the program is started with (Side is the side it is
\* started with where only one side is explored).
MaxSide == 4

\* --------------------------------------------------------------- constants
PERIOD == PeriodUnits

Max(a, b) == IF a >= b THEN a ELSE b
Min(a, b) == IF a <= b THEN a ELSE b

VARIABLES
  GRID_SIZE,      \* const GRID_SIZE: set once when the script starts
  universe,       \* the module-level grid (let universe)
  rendered,       \* the grid last passed to render
  inThrottle,     \* throttle closure: inThrottle (undefined is FALSE)
  hasPrevious,    \* throttle closure: previous has been assigned
  sincePrevious,  \* Date.now() - previous, saturated at PERIOD
  timeout,        \* throttle closure: the timer behind the handle `timeout`
  rafQueue,       \* number of pending requestAnimationFrame(tick) callbacks
  lastEvent,      \* history: what the last step of the program did
  preTick,        \* history: the universe just before the last execution
  sinceWork,      \* history: time since the last execution started
  requested,      \* history: a deferred tick has not been answered yet
  generation,     \* history: executions so far, saturated at MaxGeneration
  renders,        \* history: calls of render so far, saturated one higher
  call            \* harness: the last direct call of a grid function

vars == <<GRID_SIZE, universe, rendered, inThrottle, hasPrevious,
          sincePrevious, timeout, rafQueue, lastEvent, preTick, sinceWork,
          requested, generation, renders, call>>

loopVars == <<inThrottle, hasPrevious, sincePrevious, timeout, rafQueue,
              lastEvent, preTick, sinceWork, requested, generation, renders>>

\* ---------------------------------------------------------- grid functions
\* A rows x cols array of arrays.
Rect(rows, cols) == [0..(rows - 1) -> [0..(cols - 1) -> BOOLEAN]]

\* The rows x cols grid whose live cells are the cells in live.
GridOf(rows, cols, live) ==
  [m \in 0..(rows - 1) |-> [n \in 0..(cols - 1) |-> <<m, n>> \in live]]

\* createUniverse(rows, cols): every cell is randomBool(), so any grid of
\* that shape can result.
createUniverse_ExtraColumn(rows, cols) == Rect(rows, cols + 1)
createUniverse(rows, cols) == Rect(rows, cols)

\* The JS remainder a % n for n > 0: truncating, the sign follows a.
JsRem(a, n) == IF a >= 0 THEN a % n ELSE -((-a) % n)

\* const ops = [-1, 0, 1]
ops == <<-1, 0, 1>>

\* ops.map(x => ops.map(y => [m + x, n + y])).flat()
NeighborBlock(m, n) ==
  [k \in 1..(Len(ops) * Len(ops)) |->
     <<m + ops[((k - 1) \div Len(ops)) + 1], n + ops[((k - 1) % Len(ops)) + 1]>>]

\* .filter((v, i) => i === skip ? false : true), i counted from 0: the
\* elements before index skip keep their place, those after it move up.
FilterIndex(s, skip) ==
  IF skip >= Len(s) THEN s
  ELSE [k \in 1..(Len(s) - 1) |-> IF k - 1 < skip THEN s[k] ELSE s[k + 1]]

getNeighbors_KeepsCell(cell) == NeighborBlock(cell[1], cell[2])
getNeighbors_SkipFifthFromOne(cell) == FilterIndex(NeighborBlock(cell[1], cell[2]), 5)
getNeighbors(cell) == FilterIndex(NeighborBlock(cell[1], cell[2]), 4)

\* The body of wrapIndex, with the value of GRID_SIZE it reads as size.
WrapTo_ZeroBelow(i, size) == IF i < 0 THEN 0 ELSE JsRem(i, size)
WrapTo_Clamped(i, size) ==
  IF i < 0 THEN 0 ELSE IF i >= size THEN size - 1 ELSE i
WrapTo_NoCorrectionAtMinusOne(i, size) ==
  LET r == JsRem(i, size) IN IF r < -1 THEN r + size ELSE r
WrapTo(i, size) ==
  LET r == JsRem(i, size) IN IF r < 0 THEN r + size ELSE r

wrapIndex(i) == WrapTo(i, GRID_SIZE)

\* The body of wrapCell, with the value of GRID_SIZE wrapIndex reads as size.
WrapCellTo(cell, size) == <<WrapTo(cell[1], size), WrapTo(cell[2], size)>>

wrapCell(cell) == WrapCellTo(cell, GRID_SIZE)

nextCellState_BirthInverted(alive, liveNeighbors) ==
  IF alive
    THEN (IF liveNeighbors < 2 \/ liveNeighbors > 3 THEN FALSE ELSE TRUE)
    ELSE (IF liveNeighbors = 3 THEN FALSE ELSE TRUE)
nextCellState_DiesAtThree(alive, liveNeighbors) ==
  IF alive
    THEN (IF liveNeighbors < 2 \/ liveNeighbors >= 3 THEN FALSE ELSE TRUE)
    ELSE (IF ~(liveNeighbors = 3) THEN FALSE ELSE TRUE)
nextCellState(alive, liveNeighbors) ==
  IF alive
    THEN (IF liveNeighbors < 2 \/ liveNeighbors > 3 THEN FALSE ELSE TRUE)
    ELSE (IF ~(liveNeighbors = 3) THEN FALSE ELSE TRUE)

\* cells.reduce((acc, [m, n]) => universe[m][n] ? acc + 1 : acc, init): init
\* plus one for every element of cells that is live in the grid the name
\* universe stands for there, global.
ReduceAlive(cells, init, global) ==
  init + Cardinality({k \in 1..Len(cells) : global[cells[k][1]][cells[k][2]]})

\* The body of countAlive, with the grid it reads as global.
CountAliveIn_StartsAtOne(cells, global) == ReduceAlive(cells, 1, global)
CountAliveIn(cells, global) == ReduceAlive(cells, 0, global)

\* countAlive is defined outside step: universe is the module-level
\* variable.
countAlive(cells) == CountAliveIn(cells, universe)

\* cells.map(wrapCell) where GRID_SIZE is size
MapWrapCell(cells, size) == [k \in 1..Len(cells) |-> WrapCellTo(cells[k], size)]

\* getNeighbors([m, n]).map(wrapCell) for the cells [m, n] of a grid of up to
\* size rows and columns, where GRID_SIZE is size.
WrappedNeighbors(size) ==
  [cell \in (0..(size - 1)) \X (0..(size - 1)) |->
     MapWrapCell(getNeighbors(cell), size)]

\* The tables above for every value of GRID_SIZE, chosen by comparison so
\* that they are computed once and kept as a value.
NeighborTables ==
  CHOOSE tables \in {[size \in 1..MaxSide |-> WrappedNeighbors(size)]} :
    tables = tables

\* const neighbors = getNeighbors([m, n]).map(wrapCell)
neighbors == NeighborTables[GRID_SIZE]

\* The body of step for the argument grid, with the grid held by the
\* module-level variable as global: the parameter is called universe in the
\* source and shadows the module-level variable inside step only, and
\* countAlive is defined outside step.
StepIn(grid, global) ==
  [m \in DOMAIN grid |->
     [n \in DOMAIN grid[m] |->
        nextCellState(grid[m][n], CountAliveIn(neighbors[<<m, n>>], global))]]

step(grid) == StepIn(grid, universe)

\* universe = step(universe) in a run of the program whose universe is g:
\* the grid that is assigned.
GenerationFrom(g) == StepIn(g, g)

\* --------------------------------------------------------------- throttle
\* const tick = throttle(fn, PERIOD): the wait argument.
wait == PERIOD

\* render(universe) paints every cell of the grid it is given.
render(grid) == grid

\* The timer behind no handle / cleared by clearTimeout.
NoTimer == [armed |-> FALSE, delay |-> 0]

\* A timer after d further clock units.
AgeTimer(t, d) == IF t.armed THEN [t EXCEPT !.delay = Max(t.delay - d, 0)] ELSE t

\* A saturated clock reading after d further clock units.
Age(x, d) == Min(x + d, PERIOD)

\* if (!inThrottle)
NotInThrottle_Inverted == inThrottle
NotInThrottle == ~inThrottle

\* inThrottle = true
EnterThrottle_NeverSet == FALSE
EnterThrottle == TRUE

\* Date.now() - previous >= wait (NaN >= wait is false while previous is
\* undefined).
Due_Strict == hasPrevious /\ sincePrevious > wait
Due == hasPrevious /\ sincePrevious >= wait

\* Math.max(wait - (Date.now() - previous), 0); setTimeout takes NaN as 0.
TimerDelay_FullWait == IF hasPrevious THEN wait ELSE 0
TimerDelay_OneShort == IF hasPrevious THEN Max(wait - sincePrevious - 1, 0) ELSE 0
TimerDelay == IF hasPrevious THEN Max(wait - sincePrevious, 0) ELSE 0

\* fn.apply(null, args); previous = Date.now()
\* fn is the arrow function of animate: universe = step(universe),
\* render(universe), window.requestAnimationFrame(tick).  It takes d clock
\* units, pending is the number of animation-frame callbacks still queued.
\* The grid the function given to throttle renders: universe =
\* step(universe) comes first, then render(universe).
FnRenders_BeforeStep(old, new) == render(old)
FnRenders(old, new) == render(new)

\* requestAnimationFrame(tick): one more callback of tick is pending.
RequestAnimationFrame_Twice(pending) == pending + 2
RequestAnimationFrame(pending) == pending + 1

RunFn(pending, d) ==
  /\ universe' = step(universe)
  /\ rendered' = FnRenders(universe, universe')
  /\ renders' = Min(renders + 1, MaxGeneration + 1)
  /\ rafQueue' = RequestAnimationFrame(pending)
  /\ hasPrevious' = TRUE
  /\ sincePrevious' = 0
  /\ preTick' = universe
  /\ sinceWork' = Age(0, d)
  /\ requested' = FALSE
  /\ generation' = Min(generation + 1, MaxGeneration)
  /\ lastEvent' = "work"

\* An animation-frame callback runs tick, the function throttle returns.
Tick ==
  /\ rafQueue > 0
  /\ IF NotInThrottle
       THEN /\ \E d \in 0..MaxWorkTime :
                 /\ RunFn(rafQueue - 1, d)
                 /\ timeout' = AgeTimer(timeout, d)
            /\ inThrottle' = EnterThrottle
       ELSE /\ timeout' = [armed |-> TRUE, delay |-> TimerDelay]
            /\ rafQueue' = rafQueue - 1
            /\ requested' = TRUE
            /\ lastEvent' = "defer"
            /\ UNCHANGED <<universe, rendered, inThrottle, hasPrevious,
                           sincePrevious, preTick, sinceWork, generation,
                           renders>>
  /\ UNCHANGED <<GRID_SIZE, call>>

\* The function given to setTimeout runs, no earlier than its delay.
TimeoutCallback ==
  /\ timeout.armed
  /\ timeout.delay = 0
  /\ timeout' = NoTimer
  /\ IF Due
       THEN \E d \in 0..MaxWorkTime : RunFn(rafQueue, d)
       ELSE /\ lastEvent' = "drop"
            /\ UNCHANGED <<universe, rendered, rafQueue, hasPrevious,
                           sincePrevious, preTick, sinceWork, requested,
                           generation, renders>>
  /\ UNCHANGED <<GRID_SIZE, inThrottle, call>>

\* One clock unit passes between callbacks.
TimePasses ==
  /\ sincePrevious' = IF hasPrevious THEN Age(sincePrevious, 1) ELSE sincePrevious
  /\ timeout' = AgeTimer(timeout, 1)
  /\ sinceWork' = Age(sinceWork, 1)
  /\ lastEvent' = "time"
  /\ UNCHANGED <<GRID_SIZE, universe, rendered, inThrottle, hasPrevious,
                 rafQueue, preTick, requested, generation, renders, call>>

\* ------------------------------------------------------------ the program
\* After the script has run: universe created and rendered once, animate has
\* requested the first animation frame, nothing of the throttle is assigned.
InitLoop ==
  /\ rendered = render(universe)
  /\ inThrottle = FALSE
  /\ hasPrevious = FALSE
  /\ sincePrevious = 0
  /\ timeout = NoTimer
  /\ rafQueue = 1
  /\ lastEvent = "start"
  /\ preTick = universe
  /\ sinceWork = PERIOD
  /\ requested = FALSE
  /\ generation = 0
  /\ renders = 1
  /\ call = [fn |-> "none"]

Init ==
  /\ GRID_SIZE = Side
  /\ universe \in createUniverse(GRID_SIZE, GRID_SIZE)
  /\ InitLoop

Next == Tick \/ TimeoutCallback \/ TimePasses

Spec == Init /\ [][Next]_vars

\* The universes whose live cells all lie in row 0.
Seeds ==
  {g \in createUniverse(GRID_SIZE, GRID_SIZE) :
     \A m \in 1..(GRID_SIZE - 1) : \A n \in DOMAIN g[m] : ~g[m][n]}

\* No callback reads the grid to decide what to do: the behaviours of the
\* loop in time are taken from the universes in Seeds.
InitSeeded == Init /\ universe \in Seeds

\* The browser eventually runs a queued animation-frame callback and a timer
\* whose delay has passed, and the clock keeps running.
FairSpec ==
  /\ InitSeeded
  /\ [][Next]_vars
  /\ WF_vars(Tick)
  /\ WF_vars(TimeoutCallback)
  /\ WF_vars(TimePasses)

\* The program started with other values of GRID_SIZE.  createUniverse can
\* return any grid; the runs are taken from the universes whose live cells
\* all lie in the first two rows, and from the universes that hold one 2 x 2
\* block at any place, the places across the edges of the grid included.
TwoRowGrids(size) ==
  {GridOf(size, size, live) :
     live \in SUBSET ((0..Min(1, size - 1)) \X (0..(size - 1)))}

BlockAt(size, r, c) ==
  GridOf(size, size,
         {<<(r + a) % size, (c + b) % size>> : a \in 0..1, b \in 0..1})

Blocks(size) == {BlockAt(size, r, c) : r \in 0..(size - 1), c \in 0..(size - 1)}

Patterns(size) == TwoRowGrids(size) \cup Blocks(size)

InitSides ==
  /\ GRID_SIZE \in 1..MaxSide
  /\ universe \in createUniverse(GRID_SIZE, GRID_SIZE) \cap Patterns(GRID_SIZE)
  /\ InitLoop

SpecSides == InitSides /\ [][Next]_vars

\* ------------------------------------------------- direct function calls
\* The grid functions called directly, one call at a time: call records the
\* function, its arguments and what it returned.
NoCall == [fn |-> "none"]

Indices == (0 - MaxIndex)..MaxIndex

CallWrapIndex ==
  /\ call = NoCall
  /\ \E i \in Indices : call' = [fn |-> "wrapIndex", i |-> i, result |-> wrapIndex(i)]
  /\ UNCHANGED <<GRID_SIZE, universe, rendered>>
  /\ UNCHANGED loopVars

CallNextCellState ==
  /\ call = NoCall
  /\ \E alive \in BOOLEAN, k \in 0..8 :
       call' = [fn |-> "nextCellState", alive |-> alive, liveNeighbors |-> k,
                result |-> nextCellState(alive, k)]
  /\ UNCHANGED <<GRID_SIZE, universe, rendered>>
  /\ UNCHANGED loopVars

CallGetNeighbors ==
  /\ call = NoCall
  /\ \E m \in Indices, n \in Indices :
       call' = [fn |-> "getNeighbors", cell |-> <<m, n>>,
                result |-> getNeighbors(<<m, n>>)]
  /\ UNCHANGED <<GRID_SIZE, universe, rendered>>
  /\ UNCHANGED loopVars

\* The caller drops the returned value.
Return ==
  /\ call # NoCall
  /\ call' = NoCall
  /\ UNCHANGED <<GRID_SIZE, universe, rendered>>
  /\ UNCHANGED loopVars

NextFn == CallWrapIndex \/ CallNextCellState \/ CallGetNeighbors \/ Return

\* wrapIndex, nextCellState and getNeighbors read no state: they are called
\* with the universe held at the grid without live cells.
InitFn == Init /\ universe = GridOf(GRID_SIZE, GRID_SIZE, {})

SpecFn == InitFn /\ [][NextFn]_vars

\* Grids of GRID_SIZE rows whose last row is one cell shorter than the
\* others; cell [0, 0] is dead or alive.
RaggedGrids ==
  {[m \in 0..(GRID_SIZE - 1) |->
      [n \in 0..(IF m = GRID_SIZE - 1 THEN GRID_SIZE - 2 ELSE GRID_SIZE - 1) |->
         <<m, n>> \in live]] : live \in SUBSET {<<0, 0>>}}

\* The grids step is called on directly: GRID_SIZE or GRID_SIZE-1 rows and
\* columns, at most MaxArgLive live cells, and the grids with a short row.
ArgGrids ==
  RaggedGrids \cup
  UNION {{GridOf(rows, cols, live) :
            live \in {l \in SUBSET ((0..(rows - 1)) \X (0..(cols - 1))) :
                        Cardinality(l) <= MaxArgLive}} :
           rows \in (GRID_SIZE - 1)..GRID_SIZE, cols \in (GRID_SIZE - 1)..GRID_SIZE}

\* const r = step(g): before is g as it was when passed, grid is g after the
\* call (map builds new arrays and step assigns to no cell of g), first is
\* what the first call on g returned.  step and the functions it calls hold
\* no throw and test no argument, and on these grids every cell they read
\* exists: the call returns.
CallStep ==
  /\ call = NoCall
  /\ \E g \in ArgGrids :
       call' = [fn |-> "step", before |-> g, grid |-> g, result |-> step(g),
                calls |-> 1, first |-> step(g), outcome |-> "returned"]
  /\ UNCHANGED <<GRID_SIZE, universe, rendered>>
  /\ UNCHANGED loopVars

\* step(g) once more, on the grid of the first call.
CallStepAgain ==
  /\ call.fn = "step"
  /\ call.calls = 1
  /\ call' = [call EXCEPT !.result = step(call.grid), !.calls = 2]
  /\ UNCHANGED <<GRID_SIZE, universe, rendered>>
  /\ UNCHANGED loopVars

\* The first two statements of the function step maps over the cells, for
\* the cell [m, n] of the universe: const neighbors =
\* getNeighbors([m, n]).map(wrapCell); const alive = countAlive(neighbors).
CallNeighbors ==
  /\ call = NoCall
  /\ \E m \in DOMAIN universe : \E n \in DOMAIN universe[m] :
       LET wrapped == [k \in 1..Len(getNeighbors(<<m, n>>)) |->
                         wrapCell(getNeighbors(<<m, n>>)[k])]
       IN  call' = [fn |-> "neighbors", cell |-> <<m, n>>,
                    neighbors |-> wrapped, alive |-> countAlive(wrapped)]
  /\ UNCHANGED <<GRID_SIZE, universe, rendered>>
  /\ UNCHANGED loopVars

NextNeighbors == CallNeighbors \/ Return

\* The neighbours of every cell, for every value of GRID_SIZE.
SpecNeighbors == InitSides /\ [][NextNeighbors]_vars

\* The animate loop together with direct calls of step.
NextCall == CallStep \/ CallStepAgain \/ Tick \/ TimeoutCallback \/ TimePasses

SpecCall == Init /\ [][NextCall]_vars

\* ------------------------------------------------------------- properties
\* The eight offsets of the Moore neighbourhood.
Offsets == {d \in {-1, 0, 1} \X {-1, 0, 1} : d # <<0, 0>>}

\* Number of live cells among the 8 neighbours of (r, c) on the torus of
\* side GRID_SIZE (% is the mathematical modulo).
LiveAround(g, r, c) ==
  Cardinality({d \in Offsets : g[(r + d[1]) % GRID_SIZE][(c + d[2]) % GRID_SIZE]})

\* B3/S23: birth on 3, survival on 2 or 3.
B3S23(alive, k) == (k = 3) \/ (alive /\ k = 2)

\* The toroidal B3/S23 successor of a GRID_SIZE x GRID_SIZE grid.
LifeSuccessor(g) ==
  [r \in 0..(GRID_SIZE - 1) |->
     [c \in 0..(GRID_SIZE - 1) |-> B3S23(g[r][c], LiveAround(g, r, c))]]

\* C1: after every tick of the animate loop the universe is the toroidal
\* B3/S23 successor of the universe as it was just before the tick: every
\* cell comes from its own pre-tick state and its 8 wrapped neighbours in
\* the pre-tick grid.
C1_TickIsLifeSuccessor ==
  lastEvent = "work" => universe = LifeSuccessor(preTick)

\* A tick has run in which the corner cell was born, which takes live
\* neighbours across the wrap seam or next to it.
C1_Witness ==
  /\ lastEvent = "work"
  /\ universe[0][0] /\ ~preTick[0][0]
  /\ preTick[GRID_SIZE - 1][GRID_SIZE - 1]
  /\ universe # preTick

\* C2: nextCellState(alive, k) is a boolean, true exactly when k = 3, or
\* alive and k = 2, for both values of alive and every k in 0..8.
C2_NextCellStateIsB3S23 ==
  call.fn = "nextCellState" =>
    /\ call.result \in BOOLEAN
    /\ call.result = ((call.liveNeighbors = 3) \/ (call.alive /\ call.liveNeighbors = 2))
    /\ (call.alive /\ (call.liveNeighbors < 2 \/ call.liveNeighbors > 3)) => ~call.result
    /\ (~call.alive /\ call.liveNeighbors # 3) => ~call.result

\* nextCellState has been called on a live cell with 3 live neighbours and
\* let it live.
C2_Witness ==
  /\ call.fn = "nextCellState"
  /\ call.alive /\ call.liveNeighbors = 3 /\ call.result

\* C3 as claimed: the result of step(g) is determined by g alone, whatever
\* the module-level universe is; the neighbour counts are taken from g.
C3_StepDependsOnArgumentOnly ==
  (call.fn = "step" /\ call.before \in Rect(GRID_SIZE, GRID_SIZE)) =>
    call.result = LifeSuccessor(call.before)

\* C4 as claimed: step(g) leaves every cell of g unchanged, and two calls of
\* step on the same grid g return element-wise equal grids.
C4_StepTwiceAgrees ==
  call.fn = "step" =>
    /\ call.grid = call.before
    /\ call.calls = 2 => call.result = call.first

\* C5: for every integer i, wrapIndex(i) lies in 0..GRID_SIZE-1 and is
\* congruent to i modulo GRID_SIZE; wrapIndex(-1) = GRID_SIZE-1,
\* wrapIndex(GRID_SIZE) = 0, wrapIndex(0) = 0, wrapIndex(GRID_SIZE-1) =
\* GRID_SIZE-1.
C5_WrapIndexIsModulo ==
  call.fn = "wrapIndex" =>
    /\ call.result \in 0..(GRID_SIZE - 1)
    /\ (call.result - call.i) % GRID_SIZE = 0
    /\ call.i = -1 => call.result = GRID_SIZE - 1
    /\ call.i = GRID_SIZE => call.result = 0
    /\ call.i = 0 => call.result = 0
    /\ call.i = GRID_SIZE - 1 => call.result = GRID_SIZE - 1

\* wrapIndex has been called on a negative index below -GRID_SIZE that is
\* no multiple of GRID_SIZE.
C5_Witness ==
  /\ call.fn = "wrapIndex"
  /\ call.i < 0 - GRID_SIZE
  /\ call.result > 0

\* C6: getNeighbors([r, c]) returns exactly 8 pairwise distinct unwrapped
\* pairs, the pairs (r+dr, c+dc) for dr, dc in {-1, 0, 1} without (0, 0);
\* none is (r, c).
C6_EightDistinctNeighbors ==
  call.fn = "getNeighbors" =>
    /\ Len(call.result) = 8
    /\ \A j, k \in 1..Len(call.result) : j # k => call.result[j] # call.result[k]
    /\ {call.result[k] : k \in 1..Len(call.result)} =
         {<<call.cell[1] + d[1], call.cell[2] + d[2]>> : d \in Offsets}
    /\ \A k \in 1..Len(call.result) : call.result[k] # call.cell

\* getNeighbors has been called on the corner cell and returned a pair
\* outside the grid.
C6_Witness ==
  /\ call.fn = "getNeighbors"
  /\ call.cell = <<0, 0>>
  /\ \E k \in 1..Len(call.result) : call.result[k] = <<-1, -1>>

\* The shape of a grid: its row indices and the column indices of each row.
Shape(g) == [m \in DOMAIN g |-> DOMAIN g[m]]

\* C7: the universe always is a grid of GRID_SIZE rows of GRID_SIZE booleans,
\* right after creation and after any number of ticks, and step(g) returns a
\* grid with the row count and the column counts of g.
C7_DimensionsPreserved ==
  /\ universe \in Rect(GRID_SIZE, GRID_SIZE)
  /\ call.fn = "step" =>
       /\ Shape(call.result) = Shape(call.before)
       /\ \A m \in DOMAIN call.result : \A n \in DOMAIN call.result[m] :
            call.result[m][n] \in BOOLEAN

\* The loop has ticked twice and step has been called on a grid that is not
\* square.
C7_Witness ==
  /\ generation = 2
  /\ call.fn = "step"
  /\ DOMAIN call.before # DOMAIN call.before[0]
  /\ DOMAIN call.result # DOMAIN call.result[0]

\* C8: two consecutive executions of the step+render work are at least
\* PERIOD apart, however the animation-frame and timer callbacks are timed.
C8_ExecutionsSpaced ==
  [][lastEvent' = "work" => sinceWork >= PERIOD]_vars

\* A second execution has happened, by the timer of a deferred tick.
C8_Witness ==
  /\ generation = 2
  /\ lastEvent = "work"
  /\ inThrottle

\* C9: a tick deferred by the throttle is eventually answered by an
\* execution of the work, and by one only: every execution after the first
\* takes up one outstanding deferred tick.
C9_NoWorkDropped ==
  /\ requested ~> (lastEvent = "work")
  /\ [][(lastEvent' = "work" /\ generation > 0) => (requested /\ ~requested')]_vars

\* A deferred tick has been answered by an execution and the next tick is
\* queued.
C9_Witness ==
  /\ generation = 2
  /\ lastEvent = "work"
  /\ ~requested
  /\ rafQueue = 1

\* C10: the loop has no terminal state: an animation-frame callback or a
\* timer is always pending, and with callbacks fired fairly the work is
\* executed again and again.
C10_LoopNeverStops ==
  /\ [](rafQueue > 0 \/ timeout.armed)
  /\ []<>(lastEvent = "work")

\* After the second execution the loop waits on a timer again.
C10_Witness ==
  /\ generation = 2
  /\ timeout.armed
  /\ rafQueue = 0

\* C11 as stated: a tick invoked when at least PERIOD has elapsed since the
\* last execution performs the work in that invocation, so a tick defers the
\* work only when less than PERIOD has elapsed, and then to a timer whose
\* delay is PERIOD minus the elapsed time.
C11_DefersOnlyWithinPeriod ==
  [][lastEvent' = "defer" =>
       /\ sincePrevious < PERIOD
       /\ timeout' = [armed |-> TRUE, delay |-> PERIOD - sincePrevious]]_vars

\* C11, amended: every tick after the first execution defers the work to a
\* timer, whose delay is PERIOD minus the elapsed time when less than PERIOD
\* has elapsed and zero otherwise; the work of such a tick is performed by
\* the callback of that timer, once at least PERIOD has elapsed.
C11_DefersToTimer ==
  [][/\ (inThrottle /\ rafQueue' < rafQueue) =>
          /\ lastEvent' = "defer"
          /\ universe' = universe
          /\ timeout' = [armed |-> TRUE,
                         delay |-> IF sincePrevious < PERIOD
                                     THEN PERIOD - sincePrevious ELSE 0]
     /\ (inThrottle /\ lastEvent' = "work") =>
          /\ timeout = [armed |-> TRUE, delay |-> 0]
          /\ sincePrevious >= PERIOD
          /\ ~timeout'.armed]_vars

\* A tick found at least PERIOD elapsed since the last execution and left
\* the work to a timer with no delay.
C11_Witness ==
  /\ lastEvent = "defer"
  /\ sincePrevious >= PERIOD
  /\ timeout = [armed |-> TRUE, delay |-> 0]
  /\ generation = 1

\* C12: the first invocation of the throttled tick performs the step+render
\* work in that invocation, without waiting for any timer: the first
\* callback that runs in the program (no execution and no deferred tick
\* before it) executes the work and arms no timer.
C12_FirstTickExecutes ==
  [][(generation = 0 /\ ~requested /\ lastEvent' # "time") =>
       /\ lastEvent' = "work"
       /\ generation' = 1
       /\ universe' = step(universe)
       /\ ~timeout'.armed]_vars

\* The first tick has executed the work, which took time, and no tick has
\* been deferred to a timer.
C12_Witness ==
  /\ generation = 1
  /\ lastEvent = "work"
  /\ sinceWork >= 1
  /\ ~timeout.armed
  /\ ~requested

\* C13: within a tick the new generation is computed and assigned, then
\* rendered, then the next tick is requested; so between callbacks the grid
\* last rendered is the current universe, every generation from generation
\* 0 on has been rendered exactly once (as many render calls as executions,
\* plus the one of generation 0), and the rendered grid changes only by an
\* execution, from the generation before to the new one.
C13_RenderedInOrder ==
  /\ [](rendered = universe /\ renders = generation + 1)
  /\ [][/\ rendered' # rendered =>
             (lastEvent' = "work" /\ preTick' = rendered /\ rendered' = step(rendered))
        /\ lastEvent' = "work" => (renders' = MaxGeneration + 1 \/ renders' = renders + 1)
        /\ lastEvent' = "work" => rafQueue' = 1]_vars

\* Two executions have rendered two new generations, both different from
\* the one before.
C13_Witness ==
  /\ generation = 2
  /\ renders = 3
  /\ lastEvent = "work"
  /\ rendered # preTick
  /\ rendered = universe

\* Every cell of the grid is dead.
AllDead(g) == \A m \in DOMAIN g : \A n \in DOMAIN g[m] : ~g[m][n]

\* C14: a fully dead grid of any size stays fully dead: when every cell of
\* the current universe is dead, every cell is dead after whatever the
\* program does next, and so in every later generation.
C14_DeadStaysDead ==
  [][AllDead(universe) => AllDead(universe')]_vars

\* On the largest grid, two executions have stepped a fully dead universe
\* to a fully dead universe.
C14_Witness ==
  /\ GRID_SIZE = MaxSide
  /\ generation = 2
  /\ lastEvent = "work"
  /\ AllDead(preTick)
  /\ AllDead(universe)

\* C15: on a grid of side at least 4, a universe that holds exactly one
\* 2 x 2 block of live cells, at any place and also across the edges of the
\* grid, is a fixed point: whatever the program does next leaves the
\* universe as it is, and so it is unchanged after any number of steps.
C15_BlockIsFixed ==
  [][(GRID_SIZE >= 4 /\ universe \in Blocks(GRID_SIZE)) => universe' = universe]_vars

\* Two executions have stepped the block that lies across both edges of the
\* grid (its cells are the four corners) to itself.
C15_Witness ==
  /\ GRID_SIZE >= 4
  /\ generation = 2
  /\ lastEvent = "work"
  /\ preTick = BlockAt(GRID_SIZE, GRID_SIZE - 1, GRID_SIZE - 1)
  /\ universe = preTick
  /\ universe[0][0] /\ universe[GRID_SIZE - 1][GRID_SIZE - 1]

\* The rows of the grid are not all of equal length.
Ragged(g) == \E m \in DOMAIN g : DOMAIN g[m] # DOMAIN g[0]

\* C16: calling step on a grid whose rows are not all of equal length ends
\* in an invalid-argument fault, no grid with rows of unequal length is
\* returned by step, and none is installed as the universe.
C16_RaggedGridFaults ==
  /\ ~Ragged(universe)
  /\ (call.fn = "step" /\ Ragged(call.before)) =>
       call.outcome = "invalid-argument"
  /\ (call.fn = "step" /\ call.outcome = "returned") => ~Ragged(call.result)

\* The 3 x 3 grid whose only live cells are the three cells of row 0, the
\* row above the center cell [1, 1].
BirthGrid == GridOf(3, 3, {<<0, 0>>, <<0, 1>>, <<0, 2>>})

\* C17: on the 3 x 3 grid whose center cell is dead and whose only live
\* cells are the 3 cells of the row above the center, one step makes the
\* center cell alive.
C17_BirthAtCenter ==
  [][(universe = BirthGrid /\ ~universe[1][1] /\ lastEvent' = "work") =>
       universe'[1][1]]_vars

\* The program was started on that grid and one execution has made the
\* center cell alive.
C17_Witness ==
  /\ GRID_SIZE = 3
  /\ generation = 1
  /\ lastEvent = "work"
  /\ preTick = BirthGrid
  /\ ~preTick[1][1]
  /\ universe[1][1]

\* The timers of the throttle that are set, not cleared and not fired: each
\* setTimeout follows clearTimeout(timeout), so only the timer behind the
\* handle can be one.
PendingTimers == IF timeout.armed THEN 1 ELSE 0

\* C18: at any time the pending animation-frame callbacks of tick and the
\* pending timers of the throttle together are at most one, so no two
\* executions of the work are ever queued at once.
C18_OneCallbackOutstanding ==
  rafQueue + PendingTimers <= 1

\* After two executions a deferred tick waits in a timer that has not
\* reached its delay, and no animation frame is requested.
C18_Witness ==
  /\ generation = 2
  /\ timeout.armed
  /\ timeout.delay > 0
  /\ rafQueue = 0
  /\ lastEvent = "time"

\* The cells of a grid of side size.
Cells(size) == (0..(size - 1)) \X (0..(size - 1))

\* C19: for every cell of a grid of side at least 3, the 8 neighbours that
\* getNeighbors and wrapCell give lie in the grid, are pairwise distinct and
\* differ from the cell, and the count step uses is the number of distinct
\* live cells around it, between 0 and 8; on a grid of side below 3 two of
\* the wrapped neighbours coincide or one is the cell itself.
C19_NeighborsDistinct ==
  call.fn = "neighbors" =>
    LET ns == call.neighbors
        around == {ns[k] : k \in DOMAIN ns}
    IN  /\ call.alive \in 0..8
        /\ around \subseteq Cells(GRID_SIZE)
        /\ GRID_SIZE >= 3 =>
             /\ Len(ns) = 8
             /\ Cardinality(around) = 8
             /\ call.cell \notin around
             /\ call.alive = Cardinality({c \in around : universe[c[1]][c[2]]})
             /\ call.alive = LiveAround(universe, call.cell[1], call.cell[2])
        /\ GRID_SIZE < 3 =>
             (Cardinality(around) < 8 \/ call.cell \in around)

\* The neighbours of the corner cell [0, 0] of a grid of side at least 3
\* have been taken: the opposite corner is among them and at least three
\* of them are alive.
C19_Witness ==
  /\ call.fn = "neighbors"
  /\ GRID_SIZE >= 3
  /\ call.cell = <<0, 0>>
  /\ \E k \in DOMAIN call.neighbors :
       call.neighbors[k] = <<GRID_SIZE - 1, GRID_SIZE - 1>>
  /\ call.alive >= 3

\* The grid g of side GRID_SIZE shifted cyclically by sh[1] rows and sh[2]
\* columns: the cell [m, n] of g becomes the cell [m + sh[1], n + sh[2]],
\* modulo GRID_SIZE.
Shift(g, sh) ==
  [m \in DOMAIN g |->
     [n \in DOMAIN g[m] |->
        g[(m - sh[1]) % GRID_SIZE][(n - sh[2]) % GRID_SIZE]]]

\* C20: the generation transition commutes with toroidal translation: when
\* the program steps its universe g to g', then for every shift the program
\* started on g shifted steps it to g' shifted.
C20_StepCommutesWithShift ==
  [][lastEvent' = "work" =>
       \A sh \in Cells(GRID_SIZE) :
         GenerationFrom(Shift(universe, sh)) = Shift(universe', sh)]_vars

\* On a grid of side at least 4 an execution has changed the universe into
\* a grid that has live cells and is no shift of itself by one row or by one
\* column.
C20_Witness ==
  /\ GRID_SIZE >= 4
  /\ lastEvent = "work"
  /\ universe # preTick
  /\ ~AllDead(universe)
  /\ Shift(universe, <<1, 0>>) # universe
  /\ Shift(universe, <<0, 1>>) # universe
====
